---- MODULE Spec2Model ----
(***************************************************************************)
(* The absence tracker of tracker/views.py: the session gate, the         *)
(* log-absence endpoint (predict, log, add_actual) over the AbsenceLog     *)
(* table, the dashboard (reason histogram, KPI cards, accuracy figures)    *)
(* and the salary report.                                                  *)
(*                                                                         *)
(* Hours are integers in thousandths of an hour (6250 is 6.25 h), so that  *)
(* round(x, 2) is a real conversion: it yields a multiple of 10.           *)
(* Hourly rates and amounts of money shown are integers in cents.          *)
(* A nullable column or an optional context key is <<>> (NULL) or <<v>>.   *)
(*                                                                         *)
(* The AbsenceLog schema is that of models.py plus migration 0003, which   *)
(* adds the nullable actual_hours column that views.py reads and writes.   *)
(* The EmployeePassword table that views.py imports is known only by its   *)
(* use in login_view: a username per employee id that has a password.      *)
(***************************************************************************)
EXTENDS Integers, Sequences, FiniteSets, TLC

VARIABLES
    TO_BMI_MODEL,  \* the module global: NULL (None), or the loaded artifact
    employees,     \* the Employee table: the set of employee_id values
    reasons,       \* the AbsenceReason table: the set of reason_code values
    passwords,     \* the EmployeePassword table: usernames with a password
    ledger,        \* the AbsenceLog table: a sequence, the pk is the index
    session,       \* request.session of the one browser session
    now,           \* timezone.now(), as [year, month]
    request,       \* what the last handler read of its request
    context        \* what the last handler answered

vars == <<TO_BMI_MODEL, employees, reasons, passwords, ledger, session, now,
          request, context>>

----------------------------------------------------------------------------
(* Bounds of the model *)

MaxEntries == 2

----------------------------------------------------------------------------
(* Values *)

NULL == <<>>
Some(v) == <<v>>

EmployeeIds == {7}
LoginIds == {7, 8}
UnknownEmployeeIds == {99}
ReasonCodes == {5, 13}
UnknownReasonCodes == {40}

\* A POST field: absent (None), the empty string, a non-numeric text, a number.
NoField == [tag |-> "absent", val |-> 0]
EmptyField == [tag |-> "empty", val |-> 0]
TextField == [tag |-> "text", val |-> 0]
Num(n) == [tag |-> "num", val |-> n]

\* The opaque artifact is the set of values its predict can give; a call gives
\* one of them, or raises (NULL).
Artifact == Some({1234, 6250})
ModelResults(model) == {NULL} \cup {Some(v) : v \in model[1]}

\* The inputs the requests are drawn from.
LogIdFields == {TextField} \cup {Num(i) : i \in 1..(MaxEntries + 1)}
ActualValues == {7000}
ActualTakenFields == {TextField} \cup {Num(a) : a \in ActualValues}
OverrideFields == {EmptyField, TextField, Num(0 - 1500)}

----------------------------------------------------------------------------
(* Python conversions *)

\* int(x) and float(x) of a POST field: None raises TypeError, "" and a
\* non-numeric text raise ValueError.
ParseNumber(f) ==
    IF f.tag = "num" THEN [ok |-> TRUE, val |-> f.val, error |-> ""]
    ELSE IF f.tag = "absent" THEN [ok |-> FALSE, val |-> 0, error |-> "TypeError"]
    ELSE [ok |-> FALSE, val |-> 0, error |-> "ValueError"]

\* The truth value of a POST field in `if override:`.
Truthy(f) == f.tag \in {"text", "num"}

\* round(x, 2) on thousandths: the nearest hundredth, a tie going to the even one.
Round2(x) ==
    LET q == x \div 10
        r == x % 10
    IN  IF r < 5 THEN 10 * q
        ELSE IF r > 5 THEN 10 * (q + 1)
        ELSE IF q % 2 = 0 THEN 10 * q ELSE 10 * (q + 1)

\* The integer nearest to num / den (den > 0), a tie going to the even one:
\* what round() does with a value that a float holds exactly.
RoundHalfEven(num, den) ==
    LET q == num \div den
        r == num % den
    IN  IF 2 * r < den THEN q
        ELSE IF 2 * r > den THEN q + 1
        ELSE IF q % 2 = 0 THEN q ELSE q + 1

\* The rounding of a quotient of floats that need not be exact: when the true
\* quotient lies halfway, the float lies a bit to either side and either
\* neighbour can come out.
RoundFloat(num, den) ==
    IF 2 * (num % den) = den
    THEN {num \div den, (num \div den) + 1}
    ELSE {RoundHalfEven(num, den)}

\* round(x, 1) on thousandths: the nearest tenth.
Round1(x) == 100 * RoundHalfEven(x, 100)

\* round(x, 2) of an amount of money. An amount is hours times rate, that is
\* thousandths of an hour times cents: the result is in cents.
RoundCents(amount) == RoundHalfEven(amount, 1000)

----------------------------------------------------------------------------
(* The AbsenceLog table *)

STATUS_CHOICES == {"ABSENT", "RETURNED"}

\* A create that a "one open absence per employee" constraint turns away.
AbsenceLogCreateUnique(l, emp, rsn, hours, date) ==
    IF \E i \in 1..Len(l) : l[i].employee = emp /\ l[i].status = "ABSENT"
    THEN l
    ELSE Append(l, [employee |-> emp, reason |-> rsn, date_logged |-> date,
                    predicted_hours |-> hours, actual_hours |-> NULL,
                    status |-> "ABSENT"])

\* AbsenceLog.objects.create(employee, reason, predicted_hours, status='ABSENT'):
\* date_logged takes its default, actual_hours its NULL.
AbsenceLogCreate(l, emp, rsn, hours, date) ==
    Append(l, [employee |-> emp, reason |-> rsn, date_logged |-> date,
               predicted_hours |-> hours, actual_hours |-> NULL,
               status |-> "ABSENT"])

\* A lookup that falls back to the newest row when the pk is unknown.
AbsenceLogGetOrLast(l, pk) ==
    IF pk \in 1..Len(l) THEN Some(pk)
    ELSE IF Len(l) > 0 THEN Some(Len(l)) ELSE NULL

\* AbsenceLog.objects.get(pk=log_id): the row, or DoesNotExist (NULL).
AbsenceLogGet(l, pk) == IF pk \in 1..Len(l) THEN Some(pk) ELSE NULL

\* A save that flips the status instead of setting it.
ReconcileToggle(l, pk, actual_val) ==
    [l EXCEPT ![pk].actual_hours = Some(actual_val),
              ![pk].status = IF @ = "ABSENT" THEN "RETURNED" ELSE "ABSENT"]

\* A save that also writes the actual hours over the prediction.
ReconcileOverwrite(l, pk, actual_val) ==
    [l EXCEPT ![pk].actual_hours = Some(actual_val),
              ![pk].predicted_hours = actual_val,
              ![pk].status = "RETURNED"]

\* A save that adds the hours to those already recorded.
ReconcileAccumulate(l, pk, actual_val) ==
    [l EXCEPT ![pk].actual_hours =
                  IF @ = NULL THEN Some(actual_val) ELSE Some(@[1] + actual_val),
              ![pk].status = "RETURNED"]

\* A reconcile that removes the row of the employee who returned.
ReconcileDelete(l, pk, actual_val) ==
    SubSeq(l, 1, pk - 1) \o SubSeq(l, pk + 1, Len(l))

\* A save of the hours that leaves the status as it was.
ReconcileKeepStatus(l, pk, actual_val) ==
    [l EXCEPT ![pk].actual_hours = Some(actual_val)]

\* log.actual_hours = actual_val; log.status = 'RETURNED'; log.save()
Reconcile(l, pk, actual_val) ==
    [l EXCEPT ![pk].actual_hours = Some(actual_val),
              ![pk].status = "RETURNED"]

----------------------------------------------------------------------------
(* Requests and answers *)

BlankRequest(view, method) ==
    [view |-> view, method |-> method, action |-> "",
     absence_log_id |-> NoField, actual_hours_taken |-> NoField,
     employee_id |-> NoField, reason_code |-> NoField,
     actual_hours |-> NoField, predict |-> NULL,
     login_type |-> "", password_ok |-> FALSE,
     search |-> NoField, severity |-> ""]

BlankContext(response) ==
    [response |-> response, error |-> "", actual_saved |-> NULL,
     predicted_hours |-> NULL, prediction_result |-> NULL, chart |-> <<>>,
     salary_data |-> {},
     total_company_hours_lost |-> NULL, total_company_cost_impact |-> NULL,
     overall_company_hours_lost |-> NULL, overall_company_cost_impact |-> NULL,
     overall_absenteeism_rate |-> NULL, estimated_compensation_impact |-> NULL,
     total_predicted_hours |-> NULL,
     model_accuracy |-> [text |-> "", percent |-> 0], model_mae |-> NULL,
     X_pred |-> NULL, unresolved_absences |-> {}]

\* A gate that lets every signed-in session through.
AdminGateSignedIn(sess) ==
    IF sess.is_admin \/ sess.employee_id # NULL THEN "pass"
    ELSE "redirect:login"

\* if not request.session.get('is_admin'): redirect to edit_profile or login
AdminGate(sess) ==
    IF sess.is_admin THEN "pass"
    ELSE IF sess.employee_id # NULL THEN "redirect:edit_profile"
    ELSE "redirect:login"

\* .filter(status='ABSENT', actual_hours__isnull=True): the pks of the rows.
\* The QuerySet is lazy, the template evaluates it when the handler is done.
unresolved_absences(l) ==
    {i \in 1..Len(l) : l[i].status = "ABSENT" /\ l[i].actual_hours = NULL}

Answer(l, ctx) ==
    [ledger |-> l,
     context |-> [ctx EXCEPT !.unresolved_absences = unresolved_absences(l)]]

Failure(l, e) == Answer(l, [BlankContext("render") EXCEPT !.error = e])

\* action == 'add_actual': everything is inside one try, and any exception
\* becomes context['error'].
add_actual(l, req) ==
    LET log_id == ParseNumber(req.absence_log_id)
        actual_val == ParseNumber(req.actual_hours_taken)
    IN  IF ~log_id.ok THEN Failure(l, log_id.error)
        ELSE IF ~actual_val.ok THEN Failure(l, actual_val.error)
        ELSE IF AbsenceLogGet(l, log_id.val) = NULL
             THEN Failure(l, "AbsenceLog.DoesNotExist")
        ELSE Answer(Reconcile(l, AbsenceLogGet(l, log_id.val)[1], actual_val.val),
                    [BlankContext("render") EXCEPT
                        !.actual_saved = Some(actual_val.val)])

\* save_hours: the prediction, or float(override) when the actual_hours field
\* is non-empty and parses.
SaveHours(predicted_hours, override) ==
    IF Truthy(override) /\ ParseNumber(override).ok
    THEN ParseNumber(override).val
    ELSE predicted_hours

\* if not TO_BMI_MODEL: the prediction path is closed
ModelAvailableAlways(model) == TRUE

ModelAvailable(model) == model # NULL

\* Employee.objects.get(employee_id=employee_id) finds the row or raises.
EmployeeExistsAlways(emps, id) == TRUE

EmployeeExists(emps, id) == id \in emps

\* AbsenceReason.objects.get(reason_code=reason_code) finds the row or raises.
AbsenceReasonExists(rsns, code) == code \in rsns

\* action in ('predict', 'log')
predict_or_log(l, req, model, emps, rsns, date) ==
    IF ~ModelAvailable(model) THEN Failure(l, "Prediction model unavailable")
    ELSE
    LET employee_id == ParseNumber(req.employee_id)
        reason_code == ParseNumber(req.reason_code)
    IN  IF ~employee_id.ok THEN Failure(l, employee_id.error)
        ELSE IF ~reason_code.ok THEN Failure(l, reason_code.error)
        ELSE IF ~EmployeeExists(emps, employee_id.val)
             THEN Failure(l, "Employee.DoesNotExist")
        ELSE IF ~AbsenceReasonExists(rsns, reason_code.val)
             THEN Failure(l, "AbsenceReason.DoesNotExist")
        ELSE IF req.predict = NULL THEN Failure(l, "PredictError")
        ELSE
        LET predicted_hours == Round2(req.predict[1])
            shown == [BlankContext("render") EXCEPT
                         !.predicted_hours = Some(predicted_hours)]
        IN  IF req.action = "log"
            THEN LET save_hours == SaveHours(predicted_hours, req.actual_hours)
                 IN  Answer(AbsenceLogCreate(l, employee_id.val, reason_code.val,
                                             save_hours, date),
                            [shown EXCEPT !.prediction_result = Some(save_hours)])
            ELSE Answer(l, shown)

\* The POST branch of log_absence_view.
log_absence_post(l, req, model, emps, rsns, date) ==
    IF req.action = "add_actual" THEN add_actual(l, req)
    ELSE IF req.action \in {"predict", "log"}
         THEN predict_or_log(l, req, model, emps, rsns, date)
    ELSE Answer(l, BlankContext("render"))

\* The POST requests of the log-absence page, as far as the handler reads
\* them: the override is read when both ids resolve and the model answered.
\* A request has at most one bad id.
AddActualRequests ==
    {[BlankRequest("log_absence", "POST") EXCEPT
         !.action = "add_actual", !.absence_log_id = i, !.actual_hours_taken = a] :
     i \in LogIdFields, a \in ActualTakenFields \ {TextField}}
    \cup
    {[BlankRequest("log_absence", "POST") EXCEPT
         !.action = "add_actual", !.absence_log_id = Num(1),
         !.actual_hours_taken = TextField]}

AnyOf(S) == CHOOSE x \in S : TRUE

GoodIds(emps, rsns) == {<<Num(e), Num(r)>> : e \in emps, r \in rsns}

BadIds(emps, rsns) ==
    {<<e, Num(AnyOf(rsns))>> : e \in {TextField} \cup {Num(u) : u \in UnknownEmployeeIds}}
    \cup
    {<<Num(AnyOf(emps)), r>> : r \in {TextField} \cup {Num(u) : u \in UnknownReasonCodes}}

\* The ids of a request and what the model gives if predict is called: the
\* requests whose call answers, and the others.
AnsweredInputs(model, emps, rsns) ==
    IF model = NULL THEN {}
    ELSE {<<p[1], p[2], m>> :
          p \in GoodIds(emps, rsns), m \in ModelResults(model) \ {NULL}}

FailingInputs(model, emps, rsns) ==
    IF model = NULL THEN {<<NoField, NoField, NULL>>}
    ELSE {<<p[1], p[2], NULL>> : p \in GoodIds(emps, rsns)}
         \cup
         {<<p[1], p[2], Some(AnyOf(model[1]))>> : p \in BadIds(emps, rsns)}

PredictRequests(model, emps, rsns) ==
    {[BlankRequest("log_absence", "POST") EXCEPT
         !.action = "predict", !.employee_id = p[1], !.reason_code = p[2],
         !.predict = p[3]] :
     p \in AnsweredInputs(model, emps, rsns) \cup FailingInputs(model, emps, rsns)}

LogRequests(model, emps, rsns) ==
    {[BlankRequest("log_absence", "POST") EXCEPT
         !.action = "log", !.employee_id = p[1], !.reason_code = p[2],
         !.predict = p[3], !.actual_hours = o] :
     p \in AnsweredInputs(model, emps, rsns), o \in OverrideFields}
    \cup
    {[BlankRequest("log_absence", "POST") EXCEPT
         !.action = "log", !.employee_id = p[1], !.reason_code = p[2],
         !.predict = p[3]] :
     p \in FailingInputs(model, emps, rsns)}

OtherRequests == {[BlankRequest("log_absence", "POST") EXCEPT !.action = "other"]}

----------------------------------------------------------------------------
(* The views *)

LogAbsenceRedirect ==
    /\ AdminGate(session) # "pass"
    /\ request' = BlankRequest("log_absence", "")
    /\ context' = BlankContext(AdminGate(session))
    /\ UNCHANGED <<TO_BMI_MODEL, employees, reasons, passwords, ledger, session, now>>

LogAbsenceGet ==
    /\ AdminGate(session) = "pass"
    /\ request' = BlankRequest("log_absence", "GET")
    /\ context' = Answer(ledger, BlankContext("render")).context
    /\ UNCHANGED <<TO_BMI_MODEL, employees, reasons, passwords, ledger, session, now>>

LogAbsencePost ==
    /\ AdminGate(session) = "pass"
    /\ \E req \in AddActualRequests
                  \cup PredictRequests(TO_BMI_MODEL, employees, reasons)
                  \cup LogRequests(TO_BMI_MODEL, employees, reasons)
                  \cup OtherRequests :
          LET out == log_absence_post(ledger, req, TO_BMI_MODEL, employees,
                                      reasons, now)
          IN  /\ Len(out.ledger) <= MaxEntries
              /\ request' = req
              /\ ledger' = out.ledger
              /\ context' = out.context
    /\ UNCHANGED <<TO_BMI_MODEL, employees, reasons, passwords, session, now>>

\* login_view
LoginRequests ==
    {[BlankRequest("login", "POST") EXCEPT !.login_type = "admin", !.password_ok = ok] :
     ok \in BOOLEAN}
    \cup
    {[BlankRequest("login", "POST") EXCEPT
         !.login_type = "employee", !.employee_id = e, !.password_ok = ok] :
     e \in {EmptyField} \cup {Num(i) : i \in LoginIds}, ok \in BOOLEAN}
    \cup {BlankRequest("login", "GET"), BlankRequest("login", "POST")}

NoSession == [is_admin |-> FALSE, employee_id |-> NULL, is_employee |-> FALSE]

\* A login that sets its own flags and leaves those of the other role.
loginKeepFlags(sess, req, pw) ==
    IF req.method # "POST" THEN [session |-> sess, response |-> "render", error |-> ""]
    ELSE IF req.login_type = "admin" /\ req.password_ok
    THEN [session |-> [sess EXCEPT !.is_admin = TRUE],
          response |-> "redirect:dashboard", error |-> ""]
    ELSE IF /\ req.login_type = "employee" /\ Truthy(req.employee_id)
            /\ req.employee_id.val \in pw /\ req.password_ok
    THEN [session |-> [sess EXCEPT !.employee_id = Some(req.employee_id.val),
                                   !.is_employee = TRUE],
          response |-> "redirect:edit_profile", error |-> ""]
    ELSE [session |-> sess, response |-> "render", error |-> "Invalid login."]

login(sess, req, pw) ==
    IF req.method # "POST" THEN [session |-> sess, response |-> "render", error |-> ""]
    ELSE IF req.login_type = "admin"
    THEN IF req.password_ok
         THEN [session |-> [is_admin |-> TRUE, employee_id |-> NULL,
                            is_employee |-> FALSE],
               response |-> "redirect:dashboard", error |-> ""]
         ELSE [session |-> sess, response |-> "render",
               error |-> "Invalid admin password."]
    ELSE IF req.login_type = "employee"
    THEN IF ~Truthy(req.employee_id)
         THEN [session |-> sess, response |-> "render",
               error |-> "Please enter your Employee ID."]
         ELSE IF req.employee_id.val \notin pw
         THEN [session |-> sess, response |-> "render",
               error |-> "Employee does not exist."]
         ELSE IF req.password_ok
         THEN [session |-> [is_admin |-> FALSE,
                            employee_id |-> Some(req.employee_id.val),
                            is_employee |-> TRUE],
               response |-> "redirect:edit_profile", error |-> ""]
         ELSE [session |-> sess, response |-> "render",
               error |-> "Invalid employee password."]
    ELSE [session |-> sess, response |-> "render", error |-> ""]

login_view ==
    /\ \E req \in LoginRequests :
          LET out == login(session, req, passwords)
          IN  /\ request' = req
              /\ session' = out.session
              /\ context' = [BlankContext(out.response) EXCEPT !.error = out.error]
    /\ UNCHANGED <<TO_BMI_MODEL, employees, reasons, passwords, ledger, now>>

\* signout_view: request.session.flush()
signout_view ==
    /\ request' = BlankRequest("signout", "")
    /\ session' = NoSession
    /\ context' = BlankContext("redirect:login")
    /\ UNCHANGED <<TO_BMI_MODEL, employees, reasons, passwords, ledger, now>>

----------------------------------------------------------------------------
(* The dashboard's reason histogram *)

RECURSIVE SumPredicted(_, _, _)
\* Sum('predicted_hours') over the rows 1..i of one reason
SumPredicted(l, rsn, i) ==
    IF i = 0 THEN 0
    ELSE SumPredicted(l, rsn, i - 1)
         + (IF l[i].reason = rsn THEN l[i].predicted_hours ELSE 0)

\* .values('reason__reason_code', ...): one group per reason that has rows
GroupedReasons(l) == {l[i].reason : i \in 1..Len(l)}

\* .annotate(total_hours=Sum('predicted_hours'))
total_hours(l, rsn) == SumPredicted(l, rsn, Len(l))

\* .filter(total_hours__gt=0)
total_hours__gt(total) == total > 0

\* .order_by('-total_hours'): a group is not placed before a larger one; the
\* order of groups of equal total_hours is the database's choice.
OrderByAscending(first, second) == first <= second

OrderBy(first, second) == first >= second

\* The results the query can give: every ordering of the kept groups that
\* the ORDER BY allows.
reason_query(l) ==
    LET kept == {r \in GroupedReasons(l) : total_hours__gt(total_hours(l, r))}
        n == Cardinality(kept)
        orders == {f \in [1..n -> kept] :
                      /\ \A i, j \in 1..n : i # j => f[i] # f[j]
                      /\ \A i \in 1..(n - 1) :
                            OrderBy(total_hours(l, f[i]), total_hours(l, f[i + 1]))}
    IN  {[i \in 1..n |-> [reason |-> f[i], total_hours |-> total_hours(l, f[i])]] :
         f \in orders}

----------------------------------------------------------------------------
(* The salary report *)

\* .filter(date_logged__month=current_month, date_logged__year=current_year)
InMonthOnly(date, current) == date.month = current.month

InMonth(date, current) ==
    date.month = current.month /\ date.year = current.year

RECURSIVE SumHours(_, _, _, _)
\* Sum('predicted_hours') over the rows 1..i of one employee in one month
SumHours(l, emp, current, i) ==
    IF i = 0 THEN 0
    ELSE SumHours(l, emp, current, i - 1)
         + (IF l[i].employee = emp /\ InMonth(l[i].date_logged, current)
            THEN l[i].predicted_hours ELSE 0)

\* absent_hours_agg['total_hours'] or 0.0: the aggregate of no rows is None,
\* which `or` turns into 0.0
total_absent_hours(l, emp, current) == SumHours(l, emp, current, Len(l))

Severities == {"low", "medium", "high"}

\* severity_ok of salaries_view, on thousandths of an hour
severity_ok(severity, h) ==
    IF severity = "low" THEN 0 <= h /\ h <= 4000
    ELSE IF severity = "medium" THEN 4000 < h /\ h <= 8000
    ELSE IF severity = "high" THEN h > 8000
    ELSE TRUE

\* The Employee rows that the report reads: the name and the hourly rate in
\* cents (DecimalField with two places, default 30.00).
full_name(emp) == IF emp = 7 THEN <<"A", "n", "n">> ELSE <<"D", "a", "n">>

hourly_rate(emp) == IF emp = 7 THEN 3000 ELSE 3020

STANDARD_WORK_HOURS == 160000

Lower(c) ==
    IF c = "A" THEN "a" ELSE IF c = "D" THEN "d" ELSE IF c = "N" THEN "n" ELSE c

\* full_name__icontains=search
icontains(name, text) ==
    \E i \in 1..(Len(name) - Len(text) + 1) :
        \A j \in 1..Len(text) : Lower(name[i + j - 1]) = Lower(text[j])

\* GET parameters of the report: no search, an employee id, a piece of a name.
SearchText(text) == [tag |-> "text", val |-> text]
SearchFields == {NoField, Num(8), SearchText(<<"N", "n">>)}
SeverityParams == {""} \cup Severities \cup {"urgent"}

\* if search: by employee_id when int(search) parses, by name otherwise
SearchEmployees(emps, search) ==
    IF ~Truthy(search) THEN emps
    ELSE IF ParseNumber(search).ok
         THEN {e \in emps : e = ParseNumber(search).val}
         ELSE {e \in emps : icontains(full_name(e), search.val)}

\* max(0, x)
Max0(x) == IF x > 0 THEN x ELSE 0

\* A work-hours figure that is not cut off at zero.
expected_work_hours_unclamped(total) == STANDARD_WORK_HOURS - total

expected_work_hours(total) == Max0(STANDARD_WORK_HOURS - total)

\* A row whose compensation is taken from the rounded work hours.
SalaryRowFromRounded(l, emp, current) ==
    LET total == total_absent_hours(l, emp, current)
        absence_cost == total * hourly_rate(emp)
        expected_compensation ==
            Round1(expected_work_hours(total)) * hourly_rate(emp)
    IN  [employee_id |-> emp,
         total_absent_hours |-> total,
         expected_work_hours |-> Round1(expected_work_hours(total)),
         absence_cost |-> RoundCents(absence_cost),
         expected_compensation |-> RoundCents(expected_compensation)]

\* The row of one employee as salary_data holds it: the hours as the full
\* float, the work hours rounded to one place, the money to two.
SalaryRow(l, emp, current) ==
    LET total == total_absent_hours(l, emp, current)
        absence_cost == total * hourly_rate(emp)
        expected_compensation == expected_work_hours(total) * hourly_rate(emp)
    IN  [employee_id |-> emp,
         total_absent_hours |-> total,
         expected_work_hours |-> Round1(expected_work_hours(total)),
         absence_cost |-> RoundCents(absence_cost),
         expected_compensation |-> RoundCents(expected_compensation)]

\* filtered_salary_data: the rows of the employees found, all of them or
\* those of one severity. The list is a set here, a row per employee.
FilteredRowsOfAll(l, emps, current, search, severity) ==
    {SalaryRow(l, e, current) : e \in emps}

FilteredRows(l, emps, current, search, severity) ==
    LET salary_data == {SalaryRow(l, e, current) : e \in SearchEmployees(emps, search)}
    IN  IF severity \in Severities
        THEN {it \in salary_data : severity_ok(severity, it.total_absent_hours)}
        ELSE salary_data

RECURSIVE SumRowHours(_)
SumRowHours(rows) ==
    IF rows = {} THEN 0
    ELSE LET it == CHOOSE r \in rows : TRUE
         IN  it.total_absent_hours + SumRowHours(rows \ {it})

RECURSIVE SumRowCost(_)
\* sum(float(it['absence_cost'])): of the rounded costs, in cents
SumRowCost(rows) ==
    IF rows = {} THEN 0
    ELSE LET it == CHOOSE r \in rows : TRUE
         IN  it.absence_cost + SumRowCost(rows \ {it})

RECURSIVE OverallHours(_, _, _)
\* overall_company_hours_lost: over every log of the current month
OverallHours(l, current, i) ==
    IF i = 0 THEN 0
    ELSE OverallHours(l, current, i - 1)
         + (IF InMonth(l[i].date_logged, current) THEN l[i].predicted_hours ELSE 0)

RECURSIVE OverallCost(_, _, _)
\* overall_company_cost_impact: predicted_hours times the rate of the log's
\* employee, over every log of the current month
OverallCost(l, current, i) ==
    IF i = 0 THEN 0
    ELSE OverallCost(l, current, i - 1)
         + (IF InMonth(l[i].date_logged, current)
            THEN l[i].predicted_hours * hourly_rate(l[i].employee) ELSE 0)

\* The context of salaries_view
salaries(l, emps, current, search, severity) ==
    LET rows == FilteredRows(l, emps, current, search, severity)
    IN  [BlankContext("render") EXCEPT
            !.salary_data = rows,
            !.total_company_hours_lost = Some(Round1(SumRowHours(rows))),
            !.total_company_cost_impact = Some(RoundCents(1000 * SumRowCost(rows))),
            !.overall_company_hours_lost = Some(Round1(OverallHours(l, current, Len(l)))),
            !.overall_company_cost_impact =
                Some(RoundCents(OverallCost(l, current, Len(l))))]

SalariesRedirect ==
    /\ AdminGate(session) # "pass"
    /\ request' = BlankRequest("salaries", "")
    /\ context' = BlankContext(AdminGate(session))
    /\ UNCHANGED <<TO_BMI_MODEL, employees, reasons, passwords, ledger, session, now>>

salaries_view ==
    /\ AdminGate(session) = "pass"
    /\ \E search \in SearchFields, severity \in SeverityParams :
          /\ request' = [BlankRequest("salaries", "GET") EXCEPT
                            !.search = search, !.severity = severity]
          /\ context' = salaries(ledger, employees, now, search, severity)
    /\ UNCHANGED <<TO_BMI_MODEL, employees, reasons, passwords, ledger, session, now>>

----------------------------------------------------------------------------
(* The dashboard's KPI cards and accuracy figures *)

\* A rate whose division fails when there is nothing to divide by: the
\* handler raises and no rate is shown.
absenteeism_rate_unguarded(total_predicted_hours, employee_count) ==
    IF employee_count > 0
    THEN {Some(rate) :
          rate \in RoundFloat(total_predicted_hours * 10,
                              (employee_count * STANDARD_WORK_HOURS) \div 1000)}
    ELSE {NULL}

\* absenteeism_rate as the card can show it: f"{rate:.2f}%", in hundredths of
\* a percent; 0.0 when total_standard_hours is not positive. The quotient
\* total * 100 * 100 / total_standard_hours is taken with both terms divided
\* by 1000, which total_standard_hours is a multiple of.
absenteeism_rate(total_predicted_hours, employee_count) ==
    LET total_standard_hours == employee_count * STANDARD_WORK_HOURS
    IN  IF total_standard_hours > 0
        THEN {Some(rate) :
              rate \in RoundFloat(total_predicted_hours * 10,
                                  total_standard_hours \div 1000)}
        ELSE {Some(0)}

TOLERANCE_HOURS == 1000

\* AbsenceLog.objects.filter(actual_hours__isnull=False)
logs_with_actual(l) == {i \in 1..Len(l) : l[i].actual_hours # NULL}

\* abs(pred - actual)
AbsError(log) ==
    IF log.predicted_hours >= log.actual_hours[1]
    THEN log.predicted_hours - log.actual_hours[1]
    ELSE log.actual_hours[1] - log.predicted_hours

\* A tolerance that leaves out its boundary.
WithinToleranceStrict(diff) == diff < TOLERANCE_HOURS

\* if diff <= TOLERANCE_HOURS
WithinTolerance(diff) == diff <= TOLERANCE_HOURS

RECURSIVE SumErrors(_, _)
\* sum(abs_errors)
SumErrors(l, S) ==
    IF S = {} THEN 0
    ELSE LET i == CHOOSE j \in S : TRUE
         IN  AbsError(l[i]) + SumErrors(l, S \ {i})

\* model_accuracy: f"{round(within_tol / total_actual * 100.0)}%", or 'N/A'
model_accuracy(l) ==
    LET total_actual == Cardinality(logs_with_actual(l))
        within_tol == Cardinality({i \in logs_with_actual(l) :
                                      WithinTolerance(AbsError(l[i]))})
    IN  IF total_actual > 0
        THEN [text |-> "%", percent |-> RoundHalfEven(within_tol * 100, total_actual)]
        ELSE [text |-> "N/A", percent |-> 0]

\* model_mae as it can be shown: round(sum(abs_errors) / len(abs_errors), 2),
\* or None
model_mae(l) ==
    LET total_actual == Cardinality(logs_with_actual(l))
    IN  IF total_actual > 0
        THEN {Some(10 * mae) :
              mae \in RoundFloat(SumErrors(l, logs_with_actual(l)),
                                 10 * total_actual)}
        ELSE {NULL}

\* The context of dashboard_view, given the chart and the two quotients
dashboard(l, current, chart, rate, mae) ==
    [BlankContext("render") EXCEPT
        !.chart = chart,
        !.overall_absenteeism_rate = rate,
        !.estimated_compensation_impact =
            Some(RoundCents(OverallCost(l, current, Len(l)))),
        !.total_predicted_hours = Some(Round1(OverallHours(l, current, Len(l)))),
        !.model_accuracy = model_accuracy(l),
        !.model_mae = mae]

DashboardRedirect ==
    /\ AdminGate(session) # "pass"
    /\ request' = BlankRequest("dashboard", "")
    /\ context' = BlankContext(AdminGate(session))
    /\ UNCHANGED <<TO_BMI_MODEL, employees, reasons, passwords, ledger, session, now>>

dashboard_view ==
    /\ AdminGate(session) = "pass"
    /\ request' = BlankRequest("dashboard", "GET")
    /\ \E chart \in reason_query(ledger),
          rate \in absenteeism_rate(OverallHours(ledger, now, Len(ledger)),
                                    Cardinality(employees)),
          mae \in model_mae(ledger) :
          context' = dashboard(ledger, now, chart, rate, mae)
    /\ UNCHANGED <<TO_BMI_MODEL, employees, reasons, passwords, ledger, session, now>>

----------------------------------------------------------------------------
(* The system *)

StartOfTime == [year |-> 2025, month |-> 12]

Init ==
    /\ TO_BMI_MODEL \in {NULL, Artifact}
    /\ employees = EmployeeIds
    /\ reasons = ReasonCodes
    /\ passwords = {7}
    /\ ledger = <<>>
    /\ session = NoSession
    /\ now = StartOfTime
    /\ request = BlankRequest("", "")
    /\ context = BlankContext("")

\* The requests of one browser session. The clock stands still: every entry
\* is logged in the month of StartOfTime.
Next ==
    \/ LogAbsenceRedirect
    \/ LogAbsenceGet
    \/ LogAbsencePost
    \/ login_view
    \/ signout_view
    \/ DashboardRedirect
    \/ dashboard_view
    \/ SalariesRedirect
    \/ salaries_view

Spec == Init /\ [][Next]_vars

----------------------------------------------------------------------------
(* The payroll office: an admin who logs absences of two employees over the
   months and reads the reports *)

PayrollIds == {7, 8}
PayrollReasons == {5}
PayrollArtifact == Some({6250, 90000})
PayrollOverrides == {EmptyField, Num(0 - 1500)}

\* The months the clock passes through.
Months ==
    {[year |-> 2025, month |-> 12], [year |-> 2026, month |-> 1],
     [year |-> 2026, month |-> 12]}

Before(a, b) == a.year < b.year \/ (a.year = b.year /\ a.month < b.month)

\* The session and the answer that a successful admin login leaves.
AdminLogin ==
    [BlankRequest("login", "POST") EXCEPT !.login_type = "admin", !.password_ok = TRUE]

\* Log requests for an employee id, whether the table holds it or not.
PayrollRequests(model, rsns) ==
    {[BlankRequest("log_absence", "POST") EXCEPT
         !.action = "log", !.employee_id = Num(e), !.reason_code = Num(r),
         !.predict = Some(m), !.actual_hours = o] :
     e \in PayrollIds, r \in rsns, m \in model[1], o \in PayrollOverrides}

PayrollInit ==
    /\ TO_BMI_MODEL = PayrollArtifact
    /\ employees \in {{}, PayrollIds}
    /\ reasons = PayrollReasons
    /\ passwords = {}
    /\ ledger = <<>>
    /\ session = login(NoSession, AdminLogin, passwords).session
    /\ now = StartOfTime
    /\ request = AdminLogin
    /\ context = BlankContext(login(NoSession, AdminLogin, passwords).response)

PayrollLog ==
    /\ AdminGate(session) = "pass"
    /\ \E req \in PayrollRequests(TO_BMI_MODEL, reasons) :
          LET out == log_absence_post(ledger, req, TO_BMI_MODEL, employees,
                                      reasons, now)
          IN  /\ Len(out.ledger) <= MaxEntries
              /\ request' = req
              /\ ledger' = out.ledger
              /\ context' = out.context
    /\ UNCHANGED <<TO_BMI_MODEL, employees, reasons, passwords, session, now>>

\* timezone.now() moves on to a later month.
Tick ==
    /\ \E later \in Months : Before(now, later) /\ now' = later
    /\ UNCHANGED <<TO_BMI_MODEL, employees, reasons, passwords, ledger, session,
                   request, context>>

PayrollNext ==
    \/ PayrollLog
    \/ Tick
    \/ salaries_view
    \/ dashboard_view

PayrollSpec == PayrollInit /\ [][PayrollNext]_vars

----------------------------------------------------------------------------
(* The reconciliation desk: an admin who logs predictions, enters the actual
   hours and reads the accuracy figures *)

AccuracyReasons == {5}
AccuracyArtifact == Some({1234, 6000, 6250})

\* Log requests that keep the prediction.
AccuracyRequests(model, emps, rsns) ==
    {[BlankRequest("log_absence", "POST") EXCEPT
         !.action = "log", !.employee_id = Num(e), !.reason_code = Num(r),
         !.predict = Some(m), !.actual_hours = EmptyField] :
     e \in emps, r \in rsns, m \in model[1]}

AccuracyInit ==
    /\ TO_BMI_MODEL = AccuracyArtifact
    /\ employees = EmployeeIds
    /\ reasons = AccuracyReasons
    /\ passwords = {}
    /\ ledger = <<>>
    /\ session = login(NoSession, AdminLogin, passwords).session
    /\ now = StartOfTime
    /\ request = AdminLogin
    /\ context = BlankContext(login(NoSession, AdminLogin, passwords).response)

AccuracyPost ==
    /\ AdminGate(session) = "pass"
    /\ \E req \in AccuracyRequests(TO_BMI_MODEL, employees, reasons)
                  \cup AddActualRequests :
          LET out == log_absence_post(ledger, req, TO_BMI_MODEL, employees,
                                      reasons, now)
          IN  /\ Len(out.ledger) <= MaxEntries
              /\ request' = req
              /\ ledger' = out.ledger
              /\ context' = out.context
    /\ UNCHANGED <<TO_BMI_MODEL, employees, reasons, passwords, session, now>>

AccuracyNext ==
    \/ AccuracyPost
    \/ dashboard_view

AccuracySpec == AccuracyInit /\ [][AccuracyNext]_vars

----------------------------------------------------------------------------
(* The feature record that the handler builds for TO_BMI_MODEL.predict *)

\* The static features of the Employee rows.
Employee(emp) ==
    IF emp = 7
    THEN [transportation_expense |-> 279, distance_from_residence_to_work |-> 5,
          service_time |-> 14, age |-> 39, work_load_average_day |-> 239554,
          hit_target |-> 97, education |-> 1, body_mass_index |-> 24]
    ELSE [transportation_expense |-> 231, distance_from_residence_to_work |-> 35,
          service_time |-> 14, age |-> 39, work_load_average_day |-> 239554,
          hit_target |-> 97, education |-> 3, body_mass_index |-> 35]

\* A season count that runs on past the year's end.
SeasonsNoWrap(month) == (month + 3) \div 3

\* (timezone.now().month%12 + 3)//3
Seasons(month) == ((month % 12) + 3) \div 3

feature_dict(emp, reason_code, today) ==
    ("Reason for absence" :> reason_code)
    @@ ("Month of absence" :> today.month)
    @@ ("Day of the week" :> today.isoweekday + 1)
    @@ ("Seasons" :> Seasons(today.month))
    @@ ("Transportation expense" :> Employee(emp).transportation_expense)
    @@ ("Distance from Residence to Work"
          :> Employee(emp).distance_from_residence_to_work)
    @@ ("Service time" :> Employee(emp).service_time)
    @@ ("Age" :> Employee(emp).age)
    @@ ("Work load Average/day " :> Employee(emp).work_load_average_day)
    @@ ("Hit target" :> Employee(emp).hit_target)
    @@ ("Body mass index" :> Employee(emp).body_mass_index)

\* The days a request can arrive on: a month and an ISO weekday.
Days == [year : {2025}, month : 1..12, isoweekday : 1..7]

FeatureInit ==
    /\ TO_BMI_MODEL = Artifact
    /\ employees = PayrollIds
    /\ reasons = ReasonCodes
    /\ passwords = {}
    /\ ledger = <<>>
    /\ session = login(NoSession, AdminLogin, passwords).session
    /\ now \in Days
    /\ request = AdminLogin
    /\ context = BlankContext(login(NoSession, AdminLogin, passwords).response)

\* The handler up to its call of TO_BMI_MODEL.predict(X_pred), for a request
\* whose ids resolve.
BuildFeatures ==
    /\ AdminGate(session) = "pass"
    /\ ModelAvailable(TO_BMI_MODEL)
    /\ \E p \in GoodIds(employees, reasons) :
          /\ request' = [BlankRequest("log_absence", "POST") EXCEPT
                            !.action = "predict", !.employee_id = p[1],
                            !.reason_code = p[2]]
          /\ context' = [BlankContext("predict") EXCEPT
                            !.X_pred = Some(feature_dict(ParseNumber(p[1]).val,
                                                         ParseNumber(p[2]).val, now))]
    /\ UNCHANGED <<TO_BMI_MODEL, employees, reasons, passwords, ledger, session, now>>

FeatureNext == BuildFeatures

FeatureSpec == FeatureInit /\ [][FeatureNext]_vars

----------------------------------------------------------------------------
(* Properties *)

\* What the last request was, read in the state the handler left.
IsPost(req, action) ==
    req.view = "log_absence" /\ req.method = "POST" /\ req.action = action

\* C1: a ledger entry's status changes only from ABSENT to RETURNED, only in
\* an add_actual request that names the entry and sets its actual_hours; an
\* entry that is RETURNED never becomes ABSENT again.
C1_StatusOnlyAbsentToReturned ==
    [][\A i \in 1..Len(ledger) :
          (i <= Len(ledger') /\ ledger'[i].status # ledger[i].status) =>
              /\ ledger[i].status = "ABSENT"
              /\ ledger'[i].status = "RETURNED"
              /\ IsPost(request', "add_actual")
              /\ request'.absence_log_id = Num(i)
              /\ ledger'[i].actual_hours = Some(request'.actual_hours_taken.val)]_vars

\* A reconcile has turned an entry to RETURNED.
C1_Witness ==
    /\ IsPost(request, "add_actual")
    /\ context.actual_saved # NULL
    /\ \E i \in 1..Len(ledger) :
          ledger[i].status = "RETURNED" /\ ledger[i].actual_hours # NULL


\* C2: every ledger entry has predicted_hours >= 0 and rounded to 2 decimal
\* places (a multiple of 10 thousandths), whatever the model gave and whatever
\* the log request's form fields held.
C2_PredictedNonNegativeRounded ==
    \A i \in 1..Len(ledger) :
        ledger[i].predicted_hours >= 0 /\ ledger[i].predicted_hours % 10 = 0

\* C3: an entry's predicted_hours, employee and reason never change once it
\* is created; an add_actual request leaves the number of entries and every
\* entry but the one it names as they were, and changes nothing but
\* actual_hours and status of that one.
C3_PredictionImmutable ==
    [][/\ \A i \in 1..Len(ledger) :
             i <= Len(ledger') =>
                 /\ ledger'[i].predicted_hours = ledger[i].predicted_hours
                 /\ ledger'[i].employee = ledger[i].employee
                 /\ ledger'[i].reason = ledger[i].reason
       /\ IsPost(request', "add_actual") =>
             /\ Len(ledger') = Len(ledger)
             /\ \A i \in 1..Len(ledger) :
                   /\ request'.absence_log_id # Num(i) => ledger'[i] = ledger[i]
                   /\ ledger'[i] = [ledger[i] EXCEPT
                                       !.actual_hours = ledger'[i].actual_hours,
                                       !.status = ledger'[i].status]]_vars

\* A reconcile has acted on one of two entries, and the other is still open.
C3_Witness ==
    /\ IsPost(request, "add_actual")
    /\ context.actual_saved # NULL
    /\ Len(ledger) >= 2
    /\ \E i, j \in 1..Len(ledger) :
          /\ request.absence_log_id = Num(i)
          /\ ledger[i].actual_hours # NULL
          /\ j # i /\ ledger[j].actual_hours = NULL

\* C4: an add_actual request whose entry id is not in the ledger ends in an
\* error and leaves the whole ledger unchanged.
C4_UnknownIdLeavesLedger ==
    [][(/\ IsPost(request', "add_actual")
        /\ ParseNumber(request'.absence_log_id).ok
        /\ request'.absence_log_id.val \notin 1..Len(ledger)) =>
            /\ context'.error # ""
            /\ context'.actual_saved = NULL
            /\ ledger' = ledger]_vars

\* An unknown id was refused while the ledger held entries.
C4_Witness ==
    /\ IsPost(request, "add_actual")
    /\ context.error = "AbsenceLog.DoesNotExist"
    /\ Len(ledger) >= 1
    /\ request.absence_log_id.val > Len(ledger)

\* The add_actual request for an entry and a value.
ReconcileRequest(pk, v) ==
    [BlankRequest("log_absence", "POST") EXCEPT
        !.action = "add_actual", !.absence_log_id = Num(pk),
        !.actual_hours_taken = Num(v)]

\* C5: reconciling an existing entry sets its status to RETURNED and its
\* actual_hours to the supplied value, and reconciling it a second time with
\* the same value leaves the ledger exactly as the first time did.
C5_ReconcileIdempotent ==
    /\ [](\A pk \in 1..Len(ledger), v \in ActualValues \cup {500} :
             LET once == add_actual(ledger, ReconcileRequest(pk, v)).ledger
                 twice == add_actual(once, ReconcileRequest(pk, v)).ledger
             IN  /\ once[pk].status = "RETURNED"
                 /\ once[pk].actual_hours = Some(v)
                 /\ twice = once)
    /\ [][(IsPost(request', "add_actual") /\ context'.actual_saved # NULL) =>
             LET pk == request'.absence_log_id.val
                 v == request'.actual_hours_taken.val
             IN  /\ ledger'[pk].status = "RETURNED"
                 /\ ledger'[pk].actual_hours = Some(v)
                 /\ ledger[pk].actual_hours = Some(v) => ledger' = ledger]_vars

\* An entry has been reconciled with the value the request supplied.
C5_Witness ==
    /\ IsPost(request, "add_actual")
    /\ context.actual_saved # NULL
    /\ \E i \in 1..Len(ledger) :
          /\ request.absence_log_id = Num(i)
          /\ ledger[i].status = "RETURNED"
          /\ ledger[i].actual_hours = Some(request.actual_hours_taken.val)

\* The ids of a predict or log request both resolve.
GoodIdsIn(req) ==
    /\ ParseNumber(req.employee_id).ok
    /\ ParseNumber(req.reason_code).ok
    /\ req.employee_id.val \in employees
    /\ req.reason_code.val \in reasons

\* C6: when the artifact failed to load (TO_BMI_MODEL is None), every predict
\* or log request ends in the model-unavailable error and creates no ledger
\* entry, and no request ever gives the process a model.
C6_DisabledModelStaysDisabled ==
    [][TO_BMI_MODEL = NULL =>
          /\ TO_BMI_MODEL' = NULL
          /\ (IsPost(request', "predict") \/ IsPost(request', "log")) =>
                /\ context'.error = "Prediction model unavailable"
                /\ context'.predicted_hours = NULL
                /\ context'.prediction_result = NULL
                /\ ledger' = ledger]_vars

\* A log request was refused for want of a model.
C6_Witness ==
    /\ TO_BMI_MODEL = NULL
    /\ IsPost(request, "log")
    /\ context.error = "Prediction model unavailable"

\* C7: a log request that names an unknown employee id or an unknown reason
\* code, or whose model call raises, ends in an error and writes nothing: the
\* ledger is the same before and after.
C7_FailedLogWritesNothing ==
    [][(/\ IsPost(request', "log")
        /\ TO_BMI_MODEL # NULL
        /\ \/ /\ ParseNumber(request'.employee_id).ok
              /\ request'.employee_id.val \notin employees
           \/ /\ ParseNumber(request'.reason_code).ok
              /\ request'.reason_code.val \notin reasons
           \/ GoodIdsIn(request') /\ request'.predict = NULL) =>
            /\ context'.error # ""
            /\ context'.prediction_result = NULL
            /\ ledger' = ledger]_vars

\* A log request for an unknown employee was refused while the ledger held
\* entries.
C7_Witness ==
    /\ IsPost(request, "log")
    /\ request.employee_id.val \notin employees
    /\ context.error = "Employee.DoesNotExist"
    /\ Len(ledger) >= 1

C9_LogAppendsOneAbsentEntry ==
    [][/\ (/\ IsPost(request', "log")
           /\ TO_BMI_MODEL # NULL
           /\ GoodIdsIn(request')
           /\ request'.predict # NULL) =>
              /\ context'.prediction_result # NULL
              /\ Len(ledger') = Len(ledger) + 1
              /\ SubSeq(ledger', 1, Len(ledger)) = ledger
              /\ ledger'[Len(ledger')].status = "ABSENT"
              /\ ledger'[Len(ledger')].actual_hours = NULL
              /\ ledger'[Len(ledger')].employee = request'.employee_id.val
              /\ ledger'[Len(ledger')].reason = request'.reason_code.val
       /\ IsPost(request', "predict") => ledger' = ledger
       /\ Len(ledger') > Len(ledger) =>
              IsPost(request', "log") /\ Len(ledger') = Len(ledger) + 1]_vars

\* The employee of a new entry already had an entry with status ABSENT.
C9_Witness ==
    /\ IsPost(request, "log")
    /\ context.prediction_result # NULL
    /\ Len(ledger) >= 2
    /\ \E i \in 1..(Len(ledger) - 1) :
          /\ ledger[i].employee = ledger[Len(ledger)].employee
          /\ ledger[i].status = "ABSENT"
          /\ ledger[Len(ledger)].status = "ABSENT"

\* The dashboard answered the last request with a chart.
DashboardShown == request.view = "dashboard" /\ context.response = "render"

\* The hours of a chart's group.
ChartHours(chart, i) == chart[i].total_hours

\* The chart's groups are those of the ledger, each with its sum.
ChartGroupsOf(chart, l) ==
    /\ \A r \in GroupedReasons(l) :
          IF total_hours(l, r) > 0
          THEN Cardinality({i \in 1..Len(chart) : chart[i].reason = r}) = 1
          ELSE \A i \in 1..Len(chart) : chart[i].reason # r
    /\ \A i \in 1..Len(chart) :
          /\ chart[i].reason \in GroupedReasons(l)
          /\ chart[i].total_hours = total_hours(l, chart[i].reason)
          /\ chart[i].total_hours > 0

\* C10 as stated: the dashboard's reason histogram has one group per reason
\* whose summed predicted_hours is > 0, none whose sum is <= 0, and each
\* group's sum is strictly greater than the next group's.
C10_HistogramStrictlyDescending ==
    DashboardShown =>
        /\ ChartGroupsOf(context.chart, ledger)
        /\ \A i \in 1..(Len(context.chart) - 1) :
              ChartHours(context.chart, i) > ChartHours(context.chart, i + 1)

\* C10 amended: the dashboard's reason histogram has one group per reason
\* whose summed predicted_hours is > 0, none whose sum is <= 0, and no
\* group's sum is smaller than the next group's (equal sums are allowed).
C10_HistogramDescending ==
    DashboardShown =>
        /\ ChartGroupsOf(context.chart, ledger)
        /\ \A i \in 1..(Len(context.chart) - 1) :
              ChartHours(context.chart, i) >= ChartHours(context.chart, i + 1)

\* A chart of two groups of different sums, the larger one first.
C10_Witness ==
    /\ DashboardShown
    /\ Len(context.chart) = 2
    /\ ChartHours(context.chart, 1) > ChartHours(context.chart, 2)

\* C11: severity bucketing is a partition: every employee's current-month
\* total_absent_hours satisfies exactly one of the predicates low, medium and
\* high, whatever the ledger holds.
C11_SeverityPartition ==
    \A e \in employees :
        Cardinality({s \in Severities :
                        severity_ok(s, total_absent_hours(ledger, e, now))}) = 1

\* The salary report that the last request rendered.
SalariesShown == request.view = "salaries" /\ context.response = "render"

\* A step of salaries_view that renders the report.
SalariesStep ==
    request'.view = "salaries" /\ context'.response = "render" /\ now' = now

\* The rows of the ledger that count for an employee in the current month.
CurrentEntries(emp) ==
    {i \in 1..Len(ledger) :
        /\ ledger[i].employee = emp
        /\ ledger[i].date_logged.month = now.month
        /\ ledger[i].date_logged.year = now.year}

RECURSIVE PredictedOf(_)
PredictedOf(S) ==
    IF S = {} THEN 0
    ELSE LET i == CHOOSE j \in S : TRUE
         IN  ledger[i].predicted_hours + PredictedOf(S \ {i})

Within(x, y, half) == x - y <= half /\ y - x <= half

\* Every stored prediction is what a prediction is: not negative and rounded
\* to two decimals. The claims as stated are refuted on such ledgers.
LedgerAsPredicted ==
    \A i \in 1..Len(ledger) :
        ledger[i].predicted_hours >= 0 /\ ledger[i].predicted_hours % 10 = 0

\* C12 as stated: every row of the salary report holds the sum of the
\* employee's current-month predicted_hours, expected work hours equal to
\* max(0, 160 - total) and not negative, absence cost equal to total x rate,
\* and expected compensation equal to expected work hours x rate.
C12_RowFormulasExact ==
    [][(SalariesStep /\ LedgerAsPredicted) =>
        \A it \in context'.salary_data :
            LET total == PredictedOf(CurrentEntries(it.employee_id))
                rate == hourly_rate(it.employee_id)
            IN  /\ it.total_absent_hours = total
                /\ it.expected_work_hours = Max0(160000 - total)
                /\ it.expected_work_hours >= 0
                /\ 1000 * it.absence_cost = total * rate
                /\ 1000 * it.expected_compensation = it.expected_work_hours * rate]_vars

\* C12 amended: the row holds the sum of the employee's current-month
\* predicted_hours (0 if none); its expected work hours is max(0, 160 - total)
\* rounded to one decimal and not negative; its absence cost is total x rate
\* rounded to two decimals; its expected compensation is
\* max(0, 160 - total) x rate, from the unrounded hours, rounded to two decimals.
C12_RowFormulasRounded ==
    [][SalariesStep =>
        \A it \in context'.salary_data :
            LET total == PredictedOf(CurrentEntries(it.employee_id))
                rate == hourly_rate(it.employee_id)
            IN  /\ it.total_absent_hours = total
                /\ it.expected_work_hours % 100 = 0
                /\ Within(it.expected_work_hours, Max0(160000 - total), 50)
                /\ it.expected_work_hours >= 0
                /\ Within(1000 * it.absence_cost, total * rate, 500)
                /\ Within(1000 * it.expected_compensation,
                          Max0(160000 - total) * rate, 500)]_vars

\* A report of the current month with a row of 6.25 hours, whose employee
\* also has an entry of an earlier month.
C12_Witness ==
    /\ SalariesShown
    /\ \E it \in context.salary_data :
          /\ it.total_absent_hours = 6250
          /\ PredictedOf(CurrentEntries(it.employee_id)) = 6250
          /\ \E i \in 1..Len(ledger) :
                /\ ledger[i].employee = it.employee_id
                /\ Before(ledger[i].date_logged, now)

\* The scenario of C13: the employee is paid 30 an hour and their only entry
\* of the current month has predicted_hours 6.25.
OnlyEntrySixAndQuarter(emp) ==
    /\ hourly_rate(emp) = 3000
    /\ Cardinality(CurrentEntries(emp)) = 1
    /\ \A i \in CurrentEntries(emp) : ledger[i].predicted_hours = 6250

\* C13 as stated: in that scenario the employee's row shows
\* total_absent_hours 6.25, expected_work_hours 153.75, absence_cost 187.50
\* and expected_compensation 4612.50.
C13_ScenarioRowExact ==
    [][SalariesStep =>
        \A it \in context'.salary_data :
            OnlyEntrySixAndQuarter(it.employee_id) =>
                /\ it.total_absent_hours = 6250
                /\ it.expected_work_hours = 153750
                /\ it.absence_cost = 18750
                /\ it.expected_compensation = 461250]_vars

\* C13 amended: in that scenario the row shows total_absent_hours 6.25,
\* expected_work_hours 153.8 (153.75 rounded to one decimal), absence_cost
\* 187.50 and expected_compensation 4612.50.
C13_ScenarioRowRounded ==
    [][SalariesStep =>
        \A it \in context'.salary_data :
            OnlyEntrySixAndQuarter(it.employee_id) =>
                /\ it.total_absent_hours = 6250
                /\ it.expected_work_hours = 153800
                /\ it.absence_cost = 18750
                /\ it.expected_compensation = 461250]_vars

\* The report shows the row of the scenario.
C13_Witness ==
    /\ SalariesShown
    /\ \E it \in context.salary_data :
          /\ OnlyEntrySixAndQuarter(it.employee_id)
          /\ it.expected_compensation = 461250

RECURSIVE FieldSum(_, _)
FieldSum(rows, field) ==
    IF rows = {} THEN 0
    ELSE LET it == CHOOSE r \in rows : TRUE
         IN  it[field] + FieldSum(rows \ {it}, field)

\* The entries of the current month, of every employee.
AllCurrentEntries ==
    {i \in 1..Len(ledger) :
        /\ ledger[i].date_logged.month = now.month
        /\ ledger[i].date_logged.year = now.year}

RECURSIVE CostOf(_)
CostOf(S) ==
    IF S = {} THEN 0
    ELSE LET i == CHOOSE j \in S : TRUE
         IN  ledger[i].predicted_hours * hourly_rate(ledger[i].employee)
             + CostOf(S \ {i})

\* Who passes the filters of a request: the search "Nn" finds Ann (7) and not
\* Dan (8); a severity names the bucket of the employee's hours.
PassesSearch(emp, search) ==
    \/ search = NoField
    \/ search = Num(emp)
    \/ search.tag = "text" /\ emp = 7

Bucket(h) ==
    IF h < 0 THEN "none"
    ELSE IF h <= 4000 THEN "low"
    ELSE IF h <= 8000 THEN "medium"
    ELSE "high"

PassesSeverity(emp, severity) ==
    severity \in {"low", "medium", "high"} =>
        Bucket(PredictedOf(CurrentEntries(emp))) = severity

RowsAreTheFiltered ==
    /\ {it.employee_id : it \in context'.salary_data}
         = {e \in employees : /\ PassesSearch(e, request'.search)
                              /\ PassesSeverity(e, request'.severity)}
    /\ \A it \in context'.salary_data :
          it.total_absent_hours = PredictedOf(CurrentEntries(it.employee_id))

\* C14 as stated: the company-wide totals of the salary report are the sums
\* of hours and of cost over exactly the rows that pass the search and the
\* severity filter; the overall totals are the sums over all current-month
\* entries of all employees, whatever the filters.
C14_TotalsExact ==
    [][(SalariesStep /\ LedgerAsPredicted) =>
        /\ RowsAreTheFiltered
        /\ context'.total_company_hours_lost
             = Some(FieldSum(context'.salary_data, "total_absent_hours"))
        /\ context'.total_company_cost_impact
             = Some(FieldSum(context'.salary_data, "absence_cost"))
        /\ context'.overall_company_hours_lost
             = Some(PredictedOf(AllCurrentEntries))
        /\ 1000 * context'.overall_company_cost_impact[1]
             = CostOf(AllCurrentEntries)]_vars

\* C14 amended: the company-wide totals are the sum of the hours, reported
\* rounded to one decimal, and the sum of the rows' absence costs, reported
\* to two decimals, over exactly the rows that pass the search and the
\* severity filter; the overall totals are the sums over all current-month
\* entries of all employees, rounded the same way, whatever the filters.
C14_TotalsRounded ==
    [][SalariesStep =>
        /\ RowsAreTheFiltered
        /\ context'.total_company_hours_lost[1] % 100 = 0
        /\ Within(context'.total_company_hours_lost[1],
                  FieldSum(context'.salary_data, "total_absent_hours"), 50)
        /\ context'.total_company_cost_impact
             = Some(FieldSum(context'.salary_data, "absence_cost"))
        /\ context'.overall_company_hours_lost[1] % 100 = 0
        /\ Within(context'.overall_company_hours_lost[1],
                  PredictedOf(AllCurrentEntries), 50)
        /\ Within(1000 * context'.overall_company_cost_impact[1],
                  CostOf(AllCurrentEntries), 500)]_vars

\* A report that a search and a severity narrow to one row, while another
\* employee has hours in the month: the totals differ from the overall ones.
C14_Witness ==
    /\ SalariesShown
    /\ request.search # NoField
    /\ request.severity \in Severities
    /\ Cardinality(context.salary_data) = 1
    /\ context.total_company_hours_lost # context.overall_company_hours_lost
    /\ context.overall_company_hours_lost
         = Some(Round1(PredictedOf(AllCurrentEntries)))

\* A step of dashboard_view that renders the page.
DashboardStep ==
    request'.view = "dashboard" /\ context'.response = "render" /\ now' = now

\* C15 as stated: the dashboard's absenteeism rate is 0 when there are no
\* employees, and otherwise equals total current-month predicted hours
\* / (employee_count x 160) x 100. The rate is in hundredths of a percent, so
\* that rate / 100 = total / (count x 160000) x 100.
C15_RateExact ==
    [][(DashboardStep /\ LedgerAsPredicted) =>
        LET count == Cardinality(employees)
            rate == context'.overall_absenteeism_rate
        IN  /\ rate # NULL
            /\ IF count = 0 THEN rate[1] = 0
               ELSE rate[1] * count * 160
                      = PredictedOf(AllCurrentEntries) * 10]_vars

\* C15 amended: the dashboard's absenteeism rate is 0 when there are no
\* employees, and otherwise is total current-month predicted hours
\* / (employee_count x 160) x 100 reported rounded to two decimals.
C15_RateRounded ==
    [][DashboardStep =>
        LET count == Cardinality(employees)
            rate == context'.overall_absenteeism_rate
        IN  /\ rate # NULL
            /\ IF count = 0 THEN rate[1] = 0
               ELSE Within(rate[1] * count * 160,
                           PredictedOf(AllCurrentEntries) * 10,
                           count * 80)]_vars

\* The dashboard of a company with no employees shows a rate of 0.
C15_Witness ==
    /\ DashboardShown
    /\ employees = {}
    /\ context.overall_absenteeism_rate = Some(0)

\* The reconciled entries, and those of them within an hour of the prediction.
Reconciled == {i \in 1..Len(ledger) : ledger[i].actual_hours # NULL}

Gap(i) ==
    IF ledger[i].predicted_hours >= ledger[i].actual_hours[1]
    THEN ledger[i].predicted_hours - ledger[i].actual_hours[1]
    ELSE ledger[i].actual_hours[1] - ledger[i].predicted_hours

RECURSIVE GapSum(_)
GapSum(S) ==
    IF S = {} THEN 0
    ELSE LET i == CHOOSE j \in S : TRUE IN Gap(i) + GapSum(S \ {i})

\* percent is the whole number nearest to 100 x hits / n
IsRoundedPercent(percent, hits, n) ==
    Within(2 * percent * n, 2 * 100 * hits, n)

\* C16 as stated: with reconciled entries, the accuracy is the integer-rounded
\* percentage of them with |predicted - actual| <= 1.0 and the MAE is the
\* mean of |predicted - actual|; with none, the accuracy is 'N/A' and the MAE
\* is absent.
C16_AccuracyAndExactMae ==
    [][(DashboardStep /\ LedgerAsPredicted) =>
        LET n == Cardinality(Reconciled)
            hits == Cardinality({i \in Reconciled : Gap(i) <= 1000})
        IN  IF n > 0
            THEN /\ context'.model_accuracy.text = "%"
                 /\ IsRoundedPercent(context'.model_accuracy.percent, hits, n)
                 /\ context'.model_mae # NULL
                 /\ context'.model_mae[1] * n = GapSum(Reconciled)
            ELSE /\ context'.model_accuracy.text = "N/A"
                 /\ context'.model_mae = NULL]_vars

\* C16 amended: with reconciled entries, the accuracy is the integer-rounded
\* percentage of them with |predicted - actual| <= 1.0 (the boundary counts)
\* and the MAE is the mean of |predicted - actual| rounded to two decimals;
\* with none, the accuracy is 'N/A' and the MAE is absent.
C16_AccuracyAndRoundedMae ==
    [][DashboardStep =>
        LET n == Cardinality(Reconciled)
            hits == Cardinality({i \in Reconciled : Gap(i) <= 1000})
        IN  IF n > 0
            THEN /\ context'.model_accuracy.text = "%"
                 /\ IsRoundedPercent(context'.model_accuracy.percent, hits, n)
                 /\ context'.model_mae # NULL
                 /\ context'.model_mae[1] % 10 = 0
                 /\ Within(context'.model_mae[1] * n, GapSum(Reconciled), 5 * n)
            ELSE /\ context'.model_accuracy.text = "N/A"
                 /\ context'.model_mae = NULL]_vars

\* The dashboard after two reconciliations, 6.25 against 7.0 and one exactly
\* an hour off: both count, the accuracy is 100%.
C16_Witness ==
    /\ DashboardShown
    /\ \E i \in Reconciled : ledger[i].predicted_hours = 6250 /\ Gap(i) = 750
    /\ \E i \in Reconciled : Gap(i) = 1000
    /\ context.model_accuracy = [text |-> "%", percent |-> 100]

FeatureFields ==
    {"Reason for absence", "Month of absence", "Day of the week", "Seasons",
     "Transportation expense", "Distance from Residence to Work",
     "Service time", "Age", "Work load Average/day ", "Hit target",
     "Body mass index"}

\* The season of a month by the calendar: December to February is 1.
SeasonByCalendar(month) ==
    IF month \in {12, 1, 2} THEN 1
    ELSE IF month \in {3, 4, 5} THEN 2
    ELSE IF month \in {6, 7, 8} THEN 3
    ELSE 4

\* C17: the feature record of an employee, a reason code and a date has
\* exactly the 11 fixed fields, education not among them; its season is
\* ((month mod 12) + 3) div 3, in 1..4, the same for months 12 and 1; its
\* weekday is the ISO weekday plus 1.
C17_FeatureRecord ==
    context.X_pred # NULL =>
        LET f == context.X_pred[1]
            emp == request.employee_id.val
        IN  /\ DOMAIN f = FeatureFields
            /\ Cardinality(DOMAIN f) = 11
            /\ \A k \in DOMAIN f : k \notin {"Education", "education"}
            /\ f["Reason for absence"] = request.reason_code.val
            /\ f["Month of absence"] = now.month
            /\ f["Seasons"] = ((now.month % 12) + 3) \div 3
            /\ f["Seasons"] = SeasonByCalendar(now.month)
            /\ f["Seasons"] \in 1..4
            /\ f["Day of the week"] = now.isoweekday + 1
            /\ f["Transportation expense"] = Employee(emp).transportation_expense
            /\ f["Distance from Residence to Work"]
                 = Employee(emp).distance_from_residence_to_work
            /\ f["Service time"] = Employee(emp).service_time
            /\ f["Age"] = Employee(emp).age
            /\ f["Work load Average/day "] = Employee(emp).work_load_average_day
            /\ f["Hit target"] = Employee(emp).hit_target
            /\ f["Body mass index"] = Employee(emp).body_mass_index

\* A record built on a Sunday of December: season 1, weekday 8.
C17_Witness ==
    /\ context.X_pred # NULL
    /\ now.month = 12
    /\ now.isoweekday = 7
    /\ context.X_pred[1]["Seasons"] = 1
    /\ context.X_pred[1]["Day of the week"] = 8

\* The log-absence page that the last request rendered.
LogAbsenceShown == request.view = "log_absence" /\ context.response = "render"

\* C18: an entry is RETURNED exactly when its actual_hours is set and ABSENT
\* exactly when it is null; the unresolved-absences list of the log-absence
\* page holds exactly the entries that have no actual hours.
C18_ReturnedIffActualSet ==
    /\ \A i \in 1..Len(ledger) :
          /\ ledger[i].status = "RETURNED" <=> ledger[i].actual_hours # NULL
          /\ ledger[i].status = "ABSENT" <=> ledger[i].actual_hours = NULL
    /\ LogAbsenceShown =>
          /\ context.unresolved_absences
               = {i \in 1..Len(ledger) : ledger[i].actual_hours = NULL}
          /\ context.unresolved_absences
               = {i \in 1..Len(ledger) : ledger[i].status = "ABSENT"}

\* After a reconciliation the page lists the other entry, which is open.
C18_Witness ==
    /\ LogAbsenceShown
    /\ request.action = "add_actual"
    /\ context.actual_saved # NULL
    /\ \E i \in 1..Len(ledger) : ledger[i].status = "RETURNED"
    /\ context.unresolved_absences # {}

GatedViews == {"log_absence", "dashboard", "salaries"}

\* C19: a request to the log-absence endpoint from a session without the
\* admin flag is redirected and leaves the ledger as it was; the log-absence
\* page, the dashboard and the salary report are rendered only for a session
\* with the admin flag.
C19_OnlyAdminPassesTheGate ==
    [][request'.view \in GatedViews =>
          /\ ~session.is_admin =>
                /\ context'.response \in {"redirect:login", "redirect:edit_profile"}
                /\ ledger' = ledger
                /\ context'.salary_data = {}
                /\ context'.chart = <<>>
          /\ context'.response = "render" => session.is_admin]_vars

\* An employee who asked for the log-absence page of a ledger with entries
\* and was sent to their profile.
C19_Witness ==
    /\ request.view = "log_absence"
    /\ context.response = "redirect:edit_profile"
    /\ session.is_employee
    /\ Len(ledger) > 0

\* C20: the session never holds the admin flag together with an employee id
\* or the employee flag; a login that fails leaves the session as it was; a
\* sign-out clears the three flags.
C20_SessionRolesExclusive ==
    /\ [](~(session.is_admin /\ (session.employee_id # NULL \/ session.is_employee)))
    /\ [][/\ (request'.view = "login" /\ context'.response = "render")
                => session' = session
          /\ request'.view = "signout"
                => session' = [is_admin |-> FALSE, employee_id |-> NULL,
                               is_employee |-> FALSE]]_vars

\* An employee's session after a login that failed.
C20_Witness ==
    /\ request.view = "login"
    /\ context.error # ""
    /\ session.is_employee
    /\ session.employee_id # NULL
    /\ ~session.is_admin

====
